---- MODULE Spec2Model ----
\* Model of IPython.kernel.clientconnector: the AsyncClientConnector
\* (descriptor resolution, reference cache, retry loop, client adapter).
\* One connector object; its get_client calls run as Twisted callback chains on
\* the single reactor thread, so every action below is one uninterrupted run
\* of a callback chain, from the event that starts it to the next deferred
\* that has not fired yet.
EXTENDS Integers, Sequences, FiniteSets, TLC

\* ------------------------------------------------------------------ bounds

\* Largest max_tries a caller passes (the smallest is -1).
MaxTries == 5
\* Number of get_client calls made on the connector one after the other.
MaxSeqCalls == 2
\* Number of get_client calls made on the connector when calls overlap.
MaxCalls == 3

\* Concurrent get_client calls (slots for callback chains in progress).
Calls == 1..2
TriesVals == (0 - 1)..MaxTries
\* Initial delays, in units of 0.01 s.
DelayVals == {1, 2}

\* ------------------------------------------------------------------ values

\* Python None.
None == [kind |-> "None"]

\* Strings are modelled by their structure: "pb://<tubid>" ...
Furl(t) == [kind |-> "str", scheme |-> "pb", rest |-> t]
\* ... "<dir>/<base>.<ext>" ...
Path(d, b, e) == [kind |-> "str", dir |-> d, base |-> b, ext |-> e]
\* ... and the empty string (an empty or not yet flushed FURL file).
EmptyStr == [kind |-> "str", empty |-> TRUE]
\* A string that is neither a FURL nor a file name.
Junk == [kind |-> "str", scheme |-> "http", rest |-> "junk"]

IsFurlStr(s) == "scheme" \in DOMAIN s
IsPathStr(s) == "dir" \in DOMAIN s

FurlX == Furl("X")
FurlY == Furl("Y")
Furls == {FurlX, FurlY}

\* A Python string that is used as a name only (a profile, a directory).
Str(v) == [kind |-> "str", val |-> v]

\* The file system: cluster directory A with its security directory, and
\* cluster directory B whose security directory is missing.
ClusterDirA == "ipd/cluster_default"
ClusterDirB == "work/cluster_b"
SecDirA == "ipd/cluster_default/security"
SecDirB == "work/cluster_b/security"
\* The directory of the profile mpi, and one that is made on request.
SecDirM == "ipd/cluster_mpi/security"
SecDirNew == "new/security"
ExistingDirs == {SecDirA}

TcName == [base |-> "ipcontroller-tc", ext |-> "furl"]
MecName == [base |-> "ipcontroller-mec", ext |-> "furl"]

\* os.path.join(sdir, furl_file_name)
PathJoin(sdir, name) == Path(sdir, name.base, name.ext)

FileTc == PathJoin(SecDirA, TcName)
\* A file name in a directory that does not exist, and one without .furl.
FileNoDir == Path("nowhere", "ipcontroller-tc", "furl")
FileTxt == Path(SecDirA, "notes", "txt")
TxtName == [base |-> "notes", ext |-> "txt"]

\* The FURL files whose content the controller writes.
FurlFiles == {FileTc}
Contents == {EmptyStr} \cup Furls

\* The remote references the Tub can hand out: a reference is an object
\* (obj) referring to the remote object a FURL names.
RefObjs == 1..2
Ref(f, o) == [kind |-> "ref", furl |-> f, obj |-> o]
Refs == {Ref(f, o) : f \in Furls, o \in RefObjs}

\* The connector's Tub (self.tub).
TheTub == "tub"

\* ------------------------------------------------------------------ fcutil
\* IPython.kernel.fcutil is not among the sources; its functions follow the
\* descriptions of their callers (clientconnector.py lines 71-77, 274-276).

\* A FURL is a string that starts with pb:// or pbu://.
is_valid_furl(s) == s.kind = "str" /\ IsFurlStr(s) /\ s.scheme \in {"pb", "pbu"}

\* A FURL file is a name with the .furl extension in an existing directory;
\* the content is not looked at.
is_valid_furl_file(s) ==
    s.kind = "str" /\ IsPathStr(s) /\ s.dir \in ExistingDirs /\ s.ext = "furl"

is_valid_furl_or_file(s) == is_valid_furl(s) \/ is_valid_furl_file(s)

\* find_furl(furl_or_file) with the file system fs: the FURL itself, or the
\* stripped content of the FURL file when that is a FURL; FURLError
\* otherwise (an empty file, for one).
find_furl(furl_or_file, fs) ==
    IF is_valid_furl(furl_or_file)
    THEN [kind |-> "ok", furl |-> furl_or_file]
    ELSE IF is_valid_furl_file(furl_or_file) /\ furl_or_file \in DOMAIN fs
              /\ is_valid_furl(fs[furl_or_file])
         THEN [kind |-> "ok", furl |-> fs[furl_or_file]]
         ELSE [kind |-> "raise", exc |-> "FURLError"]

\* ------------------------------------------------------------------ clusterdir
\* IPython.kernel.clusterdir is not among the sources: the directory registry.

\* ClusterDir.find_cluster_dir(cluster_dir): the directory object (its
\* security_dir), or ClusterDirError.
find_cluster_dir(cluster_dir) ==
    IF cluster_dir = Str(ClusterDirA) THEN [kind |-> "ok", security_dir |-> SecDirA]
    ELSE IF cluster_dir = Str(ClusterDirB) THEN [kind |-> "ok", security_dir |-> SecDirB]
    ELSE [kind |-> "raise", exc |-> "ClusterDirError"]

\* get_ipython_dir(): the default IPython directory.
get_ipython_dir == Str("ipd")

\* ClusterDir.find_cluster_dir_by_profile(ipython_dir, profile): looks for
\* cluster_<profile> under ipython_dir.
find_cluster_dir_by_profile(ipython_dir, profile) ==
    IF ipython_dir = Str("ipd") /\ profile = Str("default")
    THEN [kind |-> "ok", security_dir |-> SecDirA]
    ELSE IF ipython_dir = Str("ipd") /\ profile = Str("mpi")
    THEN [kind |-> "ok", security_dir |-> SecDirM]
    ELSE [kind |-> "raise", exc |-> "ClusterDirError"]

\* ClusterDir.create_cluster_dir_by_profile(ipython_dir, profile): the
\* directory cluster_<profile> under ipython_dir, made if it is not there.
create_cluster_dir_by_profile(ipython_dir, profile) ==
    IF profile = None THEN [kind |-> "raise", exc |-> "TypeError"]
    ELSE LET f == find_cluster_dir_by_profile(ipython_dir, profile)
         IN  IF f.kind = "ok"
             THEN [kind |-> "ok", security_dir |-> f.security_dir, created |-> FALSE]
             ELSE [kind |-> "ok", security_dir |-> SecDirNew, created |-> TRUE]

\* ------------------------------------------------------------------ _find_furl

\* The result of _find_furl: the FURL or file found (value), the strategies
\* it went through in order (steps), and whether the registry was asked.
Found(v, steps, reg) == [kind |-> "ok", value |-> v, steps |-> steps, registry |-> reg]
Raised(e, steps, reg) == [kind |-> "raise", exc |-> e, steps |-> steps, registry |-> reg]

\* lines 94-100 and 105-111: the FURL file in the security directory found.
InSecurityDir(found, furl_file_name, steps) ==
    IF found.kind = "raise" THEN Raised(found.exc, steps, TRUE)
    ELSE LET furl_file == PathJoin(found.security_dir, furl_file_name)
         IN IF is_valid_furl_or_file(furl_file)
            THEN Found(furl_file, steps, TRUE)
            ELSE Raised("FURLError", steps, TRUE)

\* Faulty variant of the order of the checks in _find_furl: the furl_file_name test
\* comes before the explicit furl_or_file.
NameFirst_find_furl(profile, cluster_dir, furl_or_file, furl_file_name, ipython_dir) ==
    IF furl_file_name = None THEN Raised("FURLError", << >>, FALSE)
    ELSE IF furl_or_file # None /\ is_valid_furl_or_file(furl_or_file)
    THEN Found(furl_or_file, <<"explicit">>, FALSE)
    ELSE InSecurityDir(find_cluster_dir_by_profile(
             IF ipython_dir = None THEN get_ipython_dir ELSE ipython_dir, profile),
             furl_file_name, <<"profile">>)

\* Faulty variant of lines 95-100: when the file in the directory's security
\* directory is not valid, the profile is tried.
Fallback_find_furl(profile, cluster_dir, furl_or_file, furl_file_name, ipython_dir) ==
    LET e == IF furl_or_file # None THEN <<"explicit">> ELSE << >>
        byProfile(steps) ==
            InSecurityDir(
                find_cluster_dir_by_profile(
                    IF ipython_dir = None THEN get_ipython_dir ELSE ipython_dir,
                    profile),
                furl_file_name, steps \o <<"profile">>)
        byDir == InSecurityDir(find_cluster_dir(cluster_dir), furl_file_name,
                               e \o <<"cluster_dir">>)
    IN  IF furl_or_file # None /\ is_valid_furl_or_file(furl_or_file)
        THEN Found(furl_or_file, e, FALSE)
        ELSE IF furl_file_name = None
        THEN Raised("FURLError", e, FALSE)
        ELSE IF cluster_dir # None
        THEN IF byDir.kind = "raise" /\ profile # None
             THEN byProfile(e \o <<"cluster_dir">>) ELSE byDir
        ELSE IF profile # None
        THEN byProfile(e)
        ELSE Raised("FURLError", e, FALSE)

_find_furl(profile, cluster_dir, furl_or_file, furl_file_name, ipython_dir) ==
    LET e == IF furl_or_file # None THEN <<"explicit">> ELSE << >>
    IN  IF furl_or_file # None /\ is_valid_furl_or_file(furl_or_file)
        THEN Found(furl_or_file, e, FALSE)
        ELSE IF furl_file_name = None
        THEN Raised("FURLError", e, FALSE)
        ELSE IF cluster_dir # None
        THEN InSecurityDir(find_cluster_dir(cluster_dir), furl_file_name,
                           e \o <<"cluster_dir">>)
        ELSE IF profile # None
        THEN InSecurityDir(
                 find_cluster_dir_by_profile(
                     IF ipython_dir = None THEN get_ipython_dir ELSE ipython_dir,
                     profile),
                 furl_file_name, e \o <<"profile">>)
        ELSE Raised("FURLError", e, FALSE)

\* ------------------------------------------------------------------ state

VARIABLES
    call,         \* per slot: the get_client call in progress (or finished) there
    remote_refs,  \* self._remote_refs, as a set of <<furl, reference>> entries
    furl,         \* self.furl, written by every connection attempt
    files,        \* the content of the FURL files
    pending,      \* per FURL: the tub.getReference deferreds that have not fired
    firstRef,     \* per FURL: the reference of the first get_reference that succeeded
    lateConnect,  \* per FURL: tub.getReference was called after such a success
    ncalls,       \* the get_client calls made so far
    find_in,      \* the arguments of a _find_furl call made on its own
    find_out,     \* and its result
    thread,       \* per caller thread: its blocking call through the connector
    rit,          \* the reactor runs in its thread
    state,        \* AsyncCluster.state
    launcher,     \* AsyncCluster.launcher: 0 for None, else the launcher's number
    procs,        \* per launcher: the ipcluster process it runs
    starts,       \* the start() calls made on the cluster
    stops,        \* the stop() calls made on the cluster
    auto_stop,    \* AsyncCluster.auto_stop
    final,        \* what __del__ of the cluster found and did, once it has run
    runner,       \* the launcher whose report last moved the state to running
    client_connector, \* the client_connector attribute of Cluster and AsyncCluster
    made,         \* the connectors the cluster handles created
    getter,       \* per caller thread: its Cluster.get_task_client call
    gets,         \* the calls the handles made on their connectors
    setup_in,     \* the arguments of a cluster handle's construction
    setup_out     \* and its result

\* The state of the blocking calls and of the cluster.
bridge == <<thread, rit>>
cluster == <<state, launcher, procs, starts, stops, auto_stop, final, runner>>
handles == <<client_connector, made, getter, gets>>
setup == <<setup_in, setup_out>>

vars == <<call, remote_refs, furl, files, pending, firstRef, lateConnect, ncalls,
          find_in, find_out, thread, rit, state, launcher, procs, starts, stops,
          auto_stop, final, runner, client_connector, made, getter, gets,
          setup_in, setup_out>>

\* The state of the connector and of the _find_furl call made on its own.
connector == <<call, remote_refs, furl, files, pending, firstRef, lateConnect, ncalls>>
finding == <<find_in, find_out>>

\* The state the connector's get_client calls do not touch.
outside == <<find_in, find_out, bridge, cluster, handles, setup>>

\* A failure raised by connection attempt number attempt of the call in slot c.
Failure(exc, c, attempt) ==
    [kind |-> "failure", exc |-> exc, call |-> c, attempt |-> attempt]

\* lines 327-332: the error of the else branch of _try_to_connect; its text
\* holds max_tries.
BudgetError(max_tries) ==
    [kind |-> "failure", exc |-> "ClientConnectorError",
     text |-> "max_tries exceeded", max_tries |-> max_tries]

\* lines 296-300: the error raised in place of any failure f; its text holds
\* furl_file and nothing of f.
_handle_error(f, furl_file) ==
    [kind |-> "failure", exc |-> "ClientConnectorError",
     text |-> "could not connect using the FURL file", furl_file |-> furl_file]

NoAttempt == [content |-> None, furl |-> None, outcome |-> "none",
              failure |-> None, late |-> FALSE]

\* A slot with no call.
NoCall ==
    [pc |-> "idle", furl_file |-> None, d0 |-> 0, delay |-> <<0, 1>>,
     max_tries |-> 0, attempt |-> 0, tried |-> << >>, waits |-> << >>,
     furlErrs |-> 0, last |-> NoAttempt, loopres |-> None, remote |-> << >>,
     wrap |-> "none", result |-> None]

\* ------------------------------------------------------------------ cache

InCache(refs, f) == \E e \in refs : e[1] = f
Lookup(refs, f) == (CHOOSE e \in refs : e[1] = f)[2]

\* Faulty variant of _save_ref: the entry is added beside the one already there.
Append_save_ref(refs, ref, f) == refs \cup {<<f, ref>>}

\* Faulty variant of _save_ref: the key is the connector's furl attribute, not
\* the FURL the callback was given.
Shared_save_ref(refs, ref, f) == {e \in refs : e[1] # furl} \cup {<<furl, ref>>}

\* lines 140-143: self._remote_refs[furl] = ref
_save_ref(refs, ref, f) == {e \in refs : e[1] # f} \cup {<<f, ref>>}

\* lines 132-138: the cached reference, or a tub.getReference to wait for.
get_reference(refs, f) ==
    IF InCache(refs, f) THEN [kind |-> "cached", ref |-> Lookup(refs, f)]
    ELSE [kind |-> "connect"]

\* ------------------------------------------------------------------ retry loop

\* Faulty variant of the line 305 test: one attempt too many.
OffByOne_CanAttempt(attempt, max_tries) == attempt <= max_tries

\* line 305
CanAttempt(attempt, max_tries) == attempt < max_tries

\* Faulty variant of the line 314 test: the last attempt is not recognised.
Late_IsLastAttempt(attempt, max_tries) == attempt = max_tries

\* line 314
IsLastAttempt(attempt, max_tries) == attempt = max_tries - 1

\* Faulty variant of line 321: the delay doubles.
Double_NextDelay(delay) == <<2 * delay[1], delay[2]>>

\* line 321: 1.5*delay, as an exact fraction <<numerator, denominator>>.
NextDelay(delay) == <<3 * delay[1], 2 * delay[2]>>

\* Faulty variant of line 308: the FURL read by an earlier attempt is kept.
Stale_AttemptFurl(st, fs) ==
    IF st.last.furl # None THEN [kind |-> "ok", furl |-> st.last.furl]
    ELSE find_furl(st.furl_file, fs)

\* line 308: self.furl = find_furl(furl_or_file), at every attempt.
AttemptFurl(st, fs) == find_furl(st.furl_file, fs)

\* What the descriptor source holds now: the FURL itself, or the file's content.
ContentNow(furl_file, fs) ==
    IF furl_file \in DOMAIN fs THEN fs[furl_file] ELSE furl_file

\* Faulty variant of the errback of line 293: a failure after the loop has
\* returned a reference starts another attempt while max_tries allows one.
Retry_ChainFailed(st, f) ==
    IF st.loopres # None /\ st.loopres.kind = "ok"
       /\ ~IsLastAttempt(st.attempt, st.max_tries)
    THEN [st EXCEPT !.pc = "sleeping", !.waits = Append(@, st.delay)]
    ELSE [st EXCEPT !.pc = "done", !.result = _handle_error(f, st.furl_file)]

\* get_client's errback (line 293) on a failure f of the chain.
ChainFailed(st, f) ==
    [st EXCEPT !.pc = "done", !.result = _handle_error(f, st.furl_file)]

\* _try_to_connect ends with the failure f.
LoopFailed(st, f) == ChainFailed([st EXCEPT !.loopres = f], f)

\* Faulty variant of lines 313-323: after the last attempt has failed the
\* loop waits and starts over.
Restart_AttemptFailed(st, f) ==
    LET st1 == [st EXCEPT !.last.failure = f]
    IN  IF IsLastAttempt(st.attempt, st.max_tries)
        THEN [st1 EXCEPT !.pc = "sleeping", !.attempt = 0 - 1, !.tried = << >>,
                         !.waits = << >>, !.furlErrs = 0,
                         !.delay = <<2 * st.d0, 3>>]
        ELSE [st1 EXCEPT !.pc = "sleeping", !.waits = Append(@, st.delay)]

\* lines 313-323: the attempt raised f; re-raise it on the last attempt,
\* else wait for the delay.
AttemptFailed(st, f) ==
    LET st1 == [st EXCEPT !.last.failure = f]
    IN  IF IsLastAttempt(st.attempt, st.max_tries)
        THEN LoopFailed(st1, f)
        ELSE [st1 EXCEPT !.pc = "sleeping", !.waits = Append(@, st.delay)]

\* Faulty variant of lines 324-325: the delay is waited before the reference is returned.
Slow_AttemptSucceeded(st, rr) ==
    [st EXCEPT !.pc = "wrap", !.loopres = [kind |-> "ok", rr |-> rr],
               !.remote = Append(@, "get_client_name"), !.wrap = "asked",
               !.waits = Append(@, st.delay)]

\* lines 324-325, 292 and 281: returnValue(rr), then _wrap_remote_reference
\* calls rr.callRemote('get_client_name') and waits for it.
AttemptSucceeded(st, rr) ==
    [st EXCEPT !.pc = "wrap", !.loopres = [kind |-> "ok", rr |-> rr],
               !.remote = Append(@, "get_client_name"), !.wrap = "asked"]

\* ------------------------------------------------------------------ actions

\* lines 305-332, from the entry of _try_to_connect to its first deferred
\* that has not fired, for the call st of slot c.
RunAttempt(c, st) ==
    IF CanAttempt(st.attempt, st.max_tries)
    THEN LET r == AttemptFurl(st, files)
             st1 == [st EXCEPT !.tried = Append(@, st.attempt),
                               !.last = [NoAttempt EXCEPT
                                   !.content = ContentNow(st.furl_file, files)]]
         IN  IF r.kind = "raise"
             THEN \* find_furl raised inside the try
                  /\ call' = [call EXCEPT ![c] = AttemptFailed(
                         [st1 EXCEPT !.last.outcome = "FURLError", !.furlErrs = @ + 1],
                         Failure("FURLError", c, st.attempt))]
                  /\ UNCHANGED <<furl, pending, lateConnect>>
             ELSE LET g == get_reference(remote_refs, r.furl)
                      st2 == [st1 EXCEPT !.last.furl = r.furl,
                                         !.last.late = (firstRef[r.furl] # None)]
                  IN  /\ furl' = r.furl
                      /\ IF g.kind = "cached"
                         THEN /\ call' = [call EXCEPT ![c] = AttemptSucceeded(
                                     [st2 EXCEPT !.last.outcome = "cached"], g.ref)]
                              /\ UNCHANGED <<pending, lateConnect>>
                         ELSE /\ call' = [call EXCEPT ![c] =
                                     [st2 EXCEPT !.pc = "connecting",
                                                 !.last.outcome = "pending"]]
                              /\ pending' = [pending EXCEPT ![r.furl] = @ + 1]
                              /\ lateConnect' = [lateConnect EXCEPT ![r.furl] =
                                     @ \/ firstRef[r.furl] # None]
    ELSE /\ call' = [call EXCEPT ![c] = LoopFailed(st, BudgetError(st.max_tries))]
         /\ UNCHANGED <<furl, pending, lateConnect>>

\* ------------------------------------------------------------------ get_client

\* The arguments of get_client that select the descriptor.
Args(profile, cluster_dir, furl_or_file, furl_file_name, ipython_dir) ==
    [profile |-> profile, cluster_dir |-> cluster_dir, furl_or_file |-> furl_or_file,
     furl_file_name |-> furl_file_name, ipython_dir |-> ipython_dir]

ClientArgs ==
    { Args(Str("default"), None, FurlX, None, None),
      Args(Str("default"), None, FurlY, None, None),
      Args(Str("default"), None, FileTc, None, None),
      Args(Str("default"), Str(ClusterDirA), None, TcName, None),
      Args(Str("default"), None, Junk, None, None),
      Args(Str("default"), Str("nosuchdir"), None, TcName, None) }

\* The descriptors of the calls that overlap, and their largest max_tries.
ConcArgs ==
    { Args(Str("default"), None, FurlX, None, None),
      Args(Str("default"), None, FurlY, None, None) }
ConcTries == 2

\* lines 269-294: get_client(profile, cluster_dir, furl_or_file,
\* furl_file_name, ipython_dir, delay, max_tries) in a free slot, as one of
\* at most n calls.
GetClient(c, a, delay, max_tries, n) ==
    /\ call[c].pc \in {"idle", "done"}
    /\ ncalls < n
    /\ ncalls' = ncalls + 1
    /\ LET r == _find_furl(a.profile, a.cluster_dir, a.furl_or_file,
                           a.furl_file_name, a.ipython_dir)
       IN  IF r.kind = "raise"
           THEN \* a FURLError becomes a failed deferred (line 278); any other
                \* exception leaves get_client as it is
                /\ call' = [call EXCEPT ![c] = [NoCall EXCEPT !.pc = "done",
                       !.result = [kind |-> "failure", exc |-> r.exc,
                                   raised |-> (r.exc # "FURLError")]]]
                /\ UNCHANGED <<furl, pending, lateConnect>>
           ELSE RunAttempt(c, [NoCall EXCEPT !.furl_file = r.value, !.d0 = delay,
                       !.delay = <<delay, 1>>, !.max_tries = max_tries])
    /\ UNCHANGED <<remote_refs, files, firstRef>>
    /\ UNCHANGED outside

\* The deferred of tub.getReference fires with the reference ref: _save_ref,
\* then the loop returns.
ConnectOk(c, ref) ==
    /\ call[c].pc = "connecting"
    /\ ref.furl = call[c].last.furl
    /\ pending[ref.furl] > 0
    /\ pending' = [pending EXCEPT ![ref.furl] = @ - 1]
    /\ remote_refs' = _save_ref(remote_refs, ref, call[c].last.furl)
    /\ firstRef' = [firstRef EXCEPT ![ref.furl] = IF @ = None THEN ref ELSE @]
    /\ call' = [call EXCEPT ![c] = AttemptSucceeded(
           [call[c] EXCEPT !.last.outcome = "connected"], ref)]
    /\ UNCHANGED <<furl, files, lateConnect, ncalls>>
    /\ UNCHANGED outside

\* The deferred of tub.getReference fails: the controller is not reachable.
ConnectFailed(c) ==
    /\ call[c].pc = "connecting"
    /\ pending[call[c].last.furl] > 0
    /\ pending' = [pending EXCEPT ![call[c].last.furl] = @ - 1]
    /\ call' = [call EXCEPT ![c] = AttemptFailed(
           [call[c] EXCEPT !.last.outcome = "refused"],
           Failure("ConnectError", c, call[c].attempt))]
    /\ UNCHANGED <<remote_refs, furl, files, firstRef, lateConnect, ncalls>>
    /\ UNCHANGED outside

\* sleep_deferred(delay) fires: lines 320-322, the next attempt.
SleepDone(c) ==
    /\ call[c].pc = "sleeping"
    /\ RunAttempt(c, [call[c] EXCEPT !.delay = NextDelay(@), !.attempt = @ + 1])
    /\ UNCHANGED <<remote_refs, files, firstRef, ncalls>>
    /\ UNCHANGED outside

\* The names get_client_name can answer: one that import_item finds and one
\* that it does not.
ClientNames == {"IPython.kernel.taskclient.TaskClient", "no.such.Name"}
Importable(name) == name = "IPython.kernel.taskclient.TaskClient"

\* Faulty variant of adapt: a Tub of its own for the client.
OwnTub_adapt(rr, name) ==
    [kind |-> "client", interface |-> name, rr |-> rr,
     tub |-> IF rr.obj = 1 THEN "tub" ELSE "tub2"]

\* lines 283-286: client = client_interface(rr); client.tub = self.tub
adapt(rr, name) ==
    [kind |-> "client", interface |-> name, rr |-> rr, tub |-> TheTub]

\* lines 282-287: callRemote('get_client_name') answered name; import_item,
\* then adapt.
WrapOk(c, name) ==
    /\ call[c].pc = "wrap"
    /\ call' = [call EXCEPT ![c] =
           IF Importable(name)
           THEN [call[c] EXCEPT !.pc = "done", !.wrap = "ok",
                    !.result = adapt(call[c].loopres.rr, name)]
           ELSE ChainFailed([call[c] EXCEPT !.wrap = "unresolved"],
                    [kind |-> "failure", exc |-> "ImportError", name |-> name])]
    /\ UNCHANGED <<remote_refs, furl, files, pending, firstRef, lateConnect, ncalls>>
    /\ UNCHANGED outside

\* callRemote('get_client_name') failed.
WrapFailed(c) ==
    /\ call[c].pc = "wrap"
    /\ call' = [call EXCEPT ![c] = ChainFailed(
           [call[c] EXCEPT !.wrap = "remote_failed"],
           [kind |-> "failure", exc |-> "RemoteError"])]
    /\ UNCHANGED <<remote_refs, furl, files, pending, firstRef, lateConnect, ncalls>>
    /\ UNCHANGED outside

\* The controller (another process) writes, or truncates, a FURL file.
WriteFile(f, content) ==
    /\ files[f] # content
    /\ files' = [files EXCEPT ![f] = content]
    /\ UNCHANGED <<call, remote_refs, furl, pending, firstRef, lateConnect, ncalls>>
    /\ UNCHANGED outside

\* ------------------------------------------------------------------ blocking calls

\* A caller thread that has made no call.
NoThread ==
    [pc |-> "ready", via |-> "none", args |-> None, delay |-> 0, max_tries |-> 0,
     got |-> None, out |-> None, ret |-> None]

\* client.py line 69: the connector is made before the reactor's thread is
\* started (lines 81-83); no thread has called yet.
InitBridge ==
    /\ thread = [t \in Calls |-> NoThread]
    /\ rit = FALSE

\* ------------------------------------------------------------------ cluster

\* Bounds: the start() and stop() calls made on one cluster.
MaxStarts == 2
MaxStops == 2

\* The engine count start(n) is called with: its default; n is handed to the
\* launcher and read nowhere else.
EngineCounts == {2}

\* The record of a start() call: the state and the launcher it found (at, launcher_at)
\* and left (end, launcher_end), the launcher it made, the commands it gave
\* it, the state its started report found (from), and whether an earlier
\* start() was waiting for its report at the call (overlap).
NoStart ==
    [status |-> "none", err |-> "none", at |-> "none", launcher_at |-> 0,
     launcher |-> 0, cmds |-> << >>, from |-> "none", end |-> "none",
     launcher_end |-> 0, overlap |-> FALSE]

\* The record of a stop() call: as for start(), with its two deferreds (obs, cmd), the
\* state the observation found and left (obs_from, obs_state), and whether a
\* started report came between the observation and the end of the call;
\* who called (by), and the launcher whose report had made the state running.
NoStop ==
    [status |-> "none", err |-> "none", at |-> "none", launcher_at |-> 0,
     launcher |-> 0, cmds |-> << >>, obs |-> "none", cmd |-> "none",
     obs_from |-> "none", obs_state |-> "none", restarted |-> FALSE,
     end |-> "none", launcher_end |-> 0, by |-> "caller", runner |-> 0]

\* lines 480-484: self.state = 'before', self.launcher = None
InitCluster ==
    /\ state = "before"
    /\ launcher = 0
    /\ procs = << >>
    /\ starts = << >>
    /\ stops = << >>
    /\ auto_stop = TRUE
    /\ final = None
    /\ runner = 0

\* ------------------------------------------------------------------ cluster handles

\* The threads that call the blocking Cluster, beside the reactor's thread.
CallerThreads == {"t1", "t2"}

\* A caller thread that is not in Cluster.get_task_client.
NoGetter == [pc |-> "ready", seen |-> 0, delay |-> 0, max_tries |-> 0]

\* lines 483 and 655: self.client_connector = None, in AsyncCluster and in
\* Cluster; no connector has been made.
InitHandles ==
    /\ client_connector = [async |-> 0, blocking |-> 0]
    /\ made = << >>
    /\ getter = [t \in CallerThreads |-> NoGetter]
    /\ gets = << >>

\* No cluster handle is being constructed.
InitSetup ==
    /\ setup_in = None
    /\ setup_out = None

\* lines 61-64: a new connector; the FURL files hold anything.
Init ==
    /\ call = [c \in Calls |-> NoCall]
    /\ remote_refs = {}
    /\ furl = None
    /\ files \in [FurlFiles -> Contents]
    /\ pending = [f \in Furls |-> 0]
    /\ firstRef = [f \in Furls |-> None]
    /\ lateConnect = [f \in Furls |-> FALSE]
    /\ ncalls = 0
    /\ find_in = None
    /\ find_out = None
    /\ InitBridge
    /\ InitCluster
    /\ InitHandles
    /\ InitSetup

\* The callbacks of the calls in the slots C, as the reactor runs them.
Chain(C) ==
    \/ \E c \in C, ref \in Refs : ConnectOk(c, ref)
    \/ \E c \in C : ConnectFailed(c)
    \/ \E c \in C : SleepDone(c)
    \/ \E c \in C, name \in ClientNames : WrapOk(c, name)
    \/ \E c \in C : WrapFailed(c)

\* One step of the connector, for get_client calls
\* made in the slots C with arguments from A, delays from D and max_tries
\* from M, n calls at most.
Step(C, A, D, M, n) ==
    \/ \E c \in C, a \in A, d \in D, m \in M : GetClient(c, a, d, m, n)
    \/ Chain(C)

\* get_client calls made one after the other, with every argument, while
\* the controller writes its FURL file.
Next ==
    \/ Step({1}, ClientArgs, DelayVals, TriesVals, MaxSeqCalls)
    \/ \E f \in FurlFiles, content \in Contents : WriteFile(f, content)

Spec == Init /\ [][Next]_vars

\* One get_client call, with every argument and every max_tries, while the
\* controller writes its FURL file.
NextLive ==
    \/ Step({1}, ClientArgs, {1}, TriesVals, 1)
    \/ \E f \in FurlFiles, content \in Contents : WriteFile(f, content)

\* That call when every deferred it waits for fires in the end: the
\* connect, the delay and the answer to get_client_name. The reactor runs a
\* callback that is ready; the controller need not write anything.
SpecLive == Init /\ [][NextLive]_vars /\ WF_vars(Chain({1}))

\* get_client calls that overlap on the connector, with FURLs as descriptors.
InitConc ==
    /\ Init!1 /\ Init!2 /\ Init!3 /\ Init!5 /\ Init!6 /\ Init!7 /\ Init!8
    /\ Init!9 /\ Init!10 /\ Init!11 /\ Init!12 /\ Init!13 /\ Init!14
    /\ files = [f \in FurlFiles |-> EmptyStr]

NextConc == Step(Calls, ConcArgs, {1}, 1..ConcTries, MaxCalls)

SpecConc == InitConc /\ [][NextConc]_vars

\* ------------------------------------------------------------------ resolution alone

\* Every combination of arguments of _find_furl.
FindInputs ==
    { Args(p, cd, ff, n, ipd) :
        p \in {None, Str("default"), Str("nosuch")},
        cd \in {None, Str(ClusterDirA), Str(ClusterDirB), Str("nosuchdir")},
        ff \in {None, FurlX, FurlY, FileTc, FileNoDir, FileTxt, Junk, EmptyStr},
        n \in {None, TcName, MecName, TxtName},
        ipd \in {None, Str("ipd"), Str("other")} }

InitFind ==
    /\ Init!1 /\ Init!2 /\ Init!3 /\ Init!4 /\ Init!5 /\ Init!6 /\ Init!7 /\ Init!8
    /\ find_in \in FindInputs
    /\ find_out = None
    /\ Init!11 /\ Init!12 /\ Init!13 /\ Init!14

\* lines 66-113: one call of _find_furl.
FindFurl ==
    /\ find_out = None
    /\ find_out' = _find_furl(find_in.profile, find_in.cluster_dir,
                              find_in.furl_or_file, find_in.furl_file_name,
                              find_in.ipython_dir)
    /\ UNCHANGED <<call, remote_refs, furl, files, pending, firstRef, lateConnect,
                   ncalls, find_in>>
    /\ UNCHANGED <<handles, setup>>
    /\ UNCHANGED <<bridge, cluster>>

NextFind == FindFurl

SpecFind == InitFind /\ [][NextFind]_vars

\* ------------------------------------------------------------------ cluster directory

\* lines 505-524: the cluster directory object of a new handle (its
\* security_dir, and whether it was made), or the exception raised together
\* with the object the lookups had assigned (found).
_setup_cluster_dir(profile, cluster_dir, ipython_dir, auto_create) ==
    LET ipd == IF ipython_dir = None THEN get_ipython_dir ELSE ipython_dir
        byDir == IF cluster_dir # None THEN find_cluster_dir(cluster_dir)
                 ELSE [kind |-> "raise", exc |-> "none"]
        obj1 == IF byDir.kind = "ok" THEN Str(byDir.security_dir) ELSE None
        byProfile == IF profile # None THEN find_cluster_dir_by_profile(ipd, profile)
                     ELSE [kind |-> "raise", exc |-> "none"]
        obj2 == IF byProfile.kind = "ok" THEN Str(byProfile.security_dir) ELSE obj1
    IN  IF auto_create \/ profile = Str("default")
        THEN LET c == create_cluster_dir_by_profile(ipd, profile)
             IN  IF c.kind = "raise"
                 THEN [kind |-> "raise", exc |-> c.exc, found |-> obj2]
                 ELSE [kind |-> "ok", security_dir |-> c.security_dir,
                       created |-> c.created]
        ELSE [kind |-> "raise", exc |-> "ClusterDirError", found |-> obj2]

\* The arguments AsyncCluster is constructed with.
SetupArgs(profile, cluster_dir, ipython_dir, auto_create) ==
    [profile |-> profile, cluster_dir |-> cluster_dir, ipython_dir |-> ipython_dir,
     auto_create |-> auto_create]

SetupInputs ==
    { SetupArgs(p, cd, ipd, ac) :
        p \in {None, Str("default"), Str("mpi"), Str("nosuch")},
        cd \in {None, Str(ClusterDirA), Str(ClusterDirB), Str("nosuchdir")},
        ipd \in {None, Str("ipd"), Str("other")},
        ac \in BOOLEAN }

InitSetupCall ==
    /\ Init!1 /\ Init!2 /\ Init!3 /\ Init!5 /\ Init!6 /\ Init!7 /\ Init!8
    /\ Init!9 /\ Init!10 /\ Init!11 /\ Init!12 /\ Init!13
    /\ files = [f \in FurlFiles |-> EmptyStr]
    /\ setup_in \in SetupInputs
    /\ setup_out = None

\* lines 447-484: AsyncCluster(profile, cluster_dir, ipython_dir,
\* auto_create, auto_stop); the handle exists when nothing is raised.
Construct ==
    /\ setup_out = None
    /\ setup_out' = _setup_cluster_dir(setup_in.profile, setup_in.cluster_dir,
                                       setup_in.ipython_dir, setup_in.auto_create)
    /\ UNCHANGED <<connector, finding, bridge, cluster, handles, setup_in>>

NextSetup == Construct

SpecSetup == InitSetupCall /\ [][NextSetup]_vars

\* ------------------------------------------------------------------ blocking connector

\* client.py lines 81-83: rit.start(), the reactor runs in its daemon thread.
RitStart ==
    /\ ~rit
    /\ rit' = TRUE
    /\ UNCHANGED <<call, remote_refs, furl, files, pending, firstRef, lateConnect,
                   ncalls, find_in, find_out, thread, cluster>>
    /\ UNCHANGED <<handles, setup>>

\* lines 382-385: thread t calls ClientConnector.get_task_client, which hands
\* async_cc.get_task_client to the reactor (blockingCallFromThread) and waits
\* on the queue.
BlockingCall(t, a, max_tries) ==
    /\ thread[t].pc = "ready"
    /\ thread' = [thread EXCEPT ![t] =
           [NoThread EXCEPT !.pc = "blocked", !.via = "get_task_client",
                            !.args = a, !.delay = 1, !.max_tries = max_tries]]
    /\ UNCHANGED <<call, remote_refs, furl, files, pending, firstRef, lateConnect,
                   ncalls, find_in, find_out, rit, cluster>>
    /\ UNCHANGED <<handles, setup>>

\* The reactor runs what thread t handed over: lines 181-185,
\* get_client with 'ipcontroller-tc.furl', in the slot of t.
LoopRun(t) ==
    /\ rit
    /\ thread[t].pc = "blocked"
    /\ thread[t].via = "get_task_client"
    /\ call[t].pc = "idle"
    /\ GetClient(t, [thread[t].args EXCEPT !.furl_file_name = TcName],
                 thread[t].delay, thread[t].max_tries, MaxCalls)

\* Faulty variant of Queue: the reference of the loop is put on the queue
\* while the adapter still waits for get_client_name.
Early_Queue(t) ==
    IF call[t].pc = "done" THEN call[t].result
    ELSE IF call[t].pc = "wrap" THEN call[t].loopres
    ELSE None

\* The queue thread t waits on: blockingCallFromThread puts the result or the
\* failure of the deferred on it when the deferred fires (addBoth(queue.put)).
Queue(t) == IF call[t].pc = "done" THEN call[t].result ELSE None

\* blockingCallFromThread returns in thread t: the failure taken from the
\* queue is raised, a result is returned and, line 386, adapted.
Return(t) ==
    /\ thread[t].pc = "blocked"
    /\ Queue(t) # None
    /\ thread' = [thread EXCEPT ![t] =
           IF Queue(t).kind = "failure"
           THEN [@ EXCEPT !.pc = "raised", !.out = Queue(t)]
           ELSE [@ EXCEPT !.pc = "returned", !.out = Queue(t),
                          !.ret = [kind |-> "blocking_client", of |-> Queue(t)]]]
    /\ UNCHANGED <<call, remote_refs, furl, files, pending, firstRef, lateConnect,
                   ncalls, find_in, find_out, rit, cluster>>
    /\ UNCHANGED <<handles, setup>>

\* Caller threads that each make one blocking call while the reactor runs
\* the calls' callbacks.
NextBlock ==
    \/ RitStart
    \/ \E t \in Calls, a \in ConcArgs, m \in 1..ConcTries : BlockingCall(t, a, m)
    \/ \E t \in Calls : LoopRun(t)
    \/ rit /\ Chain(Calls)
    \/ \E t \in Calls : Return(t)

SpecBlock == InitConc /\ [][NextBlock]_vars

\* ------------------------------------------------------------------ blocking get_client

\* line 47
MAX_TRIES == 9

\* A number where get_client expects a string.
Num(n) == [kind |-> "num", n |-> n]

\* What the blocking get_client is called with: a FURL, with or without an
\* ipython_dir.
BlockGetArgs ==
    { Args(Str("default"), None, FurlX, None, None),
      Args(Str("default"), None, FurlY, None, Str("ipd")) }

\* lines 429-436: thread t calls ClientConnector.get_client(profile,
\* cluster_dir, furl_or_file, ipython_dir, delay, max_tries), which hands
\* async_cc.get_client and these six values to the reactor and waits.
BlockingGetClient(t, a, delay, max_tries) ==
    /\ thread[t].pc = "ready"
    /\ thread' = [thread EXCEPT ![t] =
           [NoThread EXCEPT !.pc = "blocked", !.via = "get_client",
                            !.args = a, !.delay = delay, !.max_tries = max_tries]]
    /\ UNCHANGED <<connector, finding, rit, cluster, handles, setup>>

\* lines 229-231 and 433-436: the six values bound, in order, to the
\* parameters profile, cluster_dir, furl_or_file, furl_file_name,
\* ipython_dir, delay of the async get_client; max_tries keeps its default.
Forward(a, delay, max_tries) ==
    [profile |-> a.profile, cluster_dir |-> a.cluster_dir,
     furl_or_file |-> a.furl_or_file, furl_file_name |-> a.ipython_dir,
     ipython_dir |-> Num(delay), delay |-> max_tries, max_tries |-> MAX_TRIES]

\* The reactor runs what thread t handed over: async_cc.get_client, in the
\* slot of t.
LoopGet(t) ==
    /\ rit
    /\ thread[t].pc = "blocked"
    /\ thread[t].via = "get_client"
    /\ thread[t].got = None
    /\ call[t].pc = "idle"
    /\ LET g == Forward(thread[t].args, thread[t].delay, thread[t].max_tries)
       IN  /\ call[t].pc \in {"idle", "done"}
           /\ ncalls < MaxCalls
           /\ ncalls' = ncalls + 1
           /\ LET r == _find_furl(g.profile, g.cluster_dir, g.furl_or_file,
                                  g.furl_file_name, g.ipython_dir)
              IN  IF r.kind = "raise"
                  THEN /\ call' = [call EXCEPT ![t] = [NoCall EXCEPT !.pc = "done",
                              !.result = [kind |-> "failure", exc |-> r.exc,
                                          raised |-> (r.exc # "FURLError")]]]
                       /\ UNCHANGED <<furl, pending, lateConnect>>
                  ELSE RunAttempt(t, [NoCall EXCEPT !.furl_file = r.value,
                              !.d0 = g.delay, !.delay = <<g.delay, 1>>,
                              !.max_tries = g.max_tries])
           /\ thread' = [thread EXCEPT ![t].got = g]
    /\ UNCHANGED <<remote_refs, files, firstRef>>
    /\ UNCHANGED <<finding, rit, cluster, handles, setup>>

\* One caller thread makes one blocking get_client call.
NextGet ==
    \/ RitStart
    \/ \E a \in BlockGetArgs, d \in DelayVals, m \in 1..ConcTries :
           BlockingGetClient(1, a, d, m)
    \/ LoopGet(1)
    \/ rit /\ Chain({1})
    \/ Return(1)

SpecGet == InitConc /\ [][NextGet]_vars

\* ------------------------------------------------------------------ cluster lifecycle

\* Faulty variant of the line 535 test: start() is accepted in every state.
Any_StartAllowed(st) == TRUE

\* line 535: if not self.state=='running'
StartAllowed(st) == st # "running"

\* line 549: if self.state=='running'
StopAllowed(st) == st = "running"

\* lines 608-609
_handle_start(st) == "running"

\* Faulty variant of _handle_stop: the state is left as it is.
Keep_handle_stop(st) == st

\* lines 611-612
_handle_stop(st) == "after"

\* line 555: gatherBoth([d1, d2]) fires when both deferreds have, whatever
\* their outcome.
gatherBoth(obs, cmd) == obs = "fired" /\ cmd \in {"ok", "failed"}

\* lines 526-545: start(n), with make_deferred turning the exception into a
\* failed deferred.
Start(n) ==
    /\ Len(starts) < MaxStarts
    /\ LET l == Len(procs) + 1
       IN  IF StartAllowed(state)
           THEN /\ launcher' = l
                /\ procs' = Append(procs, [st |-> "starting", n |-> n])
                /\ state' = state
                /\ starts' = Append(starts, [NoStart EXCEPT
                       !.status = "pending", !.at = state, !.launcher_at = launcher,
                       !.launcher = l, !.cmds = <<"start">>,
                       !.end = state', !.launcher_end = launcher',
                       !.overlap = \E j \in DOMAIN starts :
                                       starts[j].status = "pending"])
           ELSE /\ UNCHANGED <<state, launcher, procs>>
                /\ starts' = Append(starts, [NoStart EXCEPT
                       !.status = "rejected", !.err = "ClusterStateError",
                       !.at = state, !.launcher_at = launcher,
                       !.end = state', !.launcher_end = launcher'])
    /\ UNCHANGED <<stops, thread, rit, auto_stop, final, runner>>
    /\ UNCHANGED <<call, remote_refs, furl, files, pending, firstRef, lateConnect,
                   ncalls, find_in, find_out>>
    /\ UNCHANGED <<handles, setup>>

\* The deferred of launcher.start() of the call s fires: line 544,
\* _handle_start.
StartReported(s) ==
    /\ starts[s].status = "pending"
    /\ procs[starts[s].launcher].st = "starting"
    /\ procs' = [procs EXCEPT ![starts[s].launcher].st = "up"]
    /\ state' = _handle_start(state)
    /\ starts' = [starts EXCEPT ![s] = [@ EXCEPT
           !.status = "done", !.from = state, !.end = state']]
    /\ stops' = [k \in DOMAIN stops |->
           IF stops[k].status = "pending" /\ stops[k].obs = "fired"
           THEN [stops[k] EXCEPT !.restarted = TRUE] ELSE stops[k]]
    /\ runner' = IF state # state' THEN starts[s].launcher ELSE runner
    /\ UNCHANGED <<launcher, thread, rit, auto_stop, final>>
    /\ UNCHANGED <<call, remote_refs, furl, files, pending, firstRef, lateConnect,
                   ncalls, find_in, find_out>>
    /\ UNCHANGED <<handles, setup>>

\* The deferred of launcher.start() of the call s fails: no callback but
\* _handle_start is on it, the failure goes to the caller.
StartFailed(s) ==
    /\ starts[s].status = "pending"
    /\ procs[starts[s].launcher].st = "starting"
    /\ procs' = [procs EXCEPT ![starts[s].launcher].st = "failed"]
    /\ state' = state
    /\ starts' = [starts EXCEPT ![s] = [@ EXCEPT
           !.status = "failed", !.err = "LaunchError", !.from = state,
           !.end = state']]
    /\ UNCHANGED <<launcher, stops, thread, rit, auto_stop, final, runner>>
    /\ UNCHANGED <<call, remote_refs, furl, files, pending, firstRef, lateConnect,
                   ncalls, find_in, find_out>>
    /\ UNCHANGED <<handles, setup>>

\* lines 549-555: the stop() call that by makes while the cluster runs.
AcceptedStop(by) ==
    [NoStop EXCEPT
        !.status = "pending", !.at = state, !.launcher_at = launcher,
        !.launcher = launcher, !.cmds = <<"observe_stop", "stop">>,
        !.obs = "pending", !.cmd = "pending",
        !.end = state, !.launcher_end = launcher, !.by = by, !.runner = runner]

\* lines 547-556: stop()
Stop ==
    /\ Len(stops) < MaxStops
    /\ IF StopAllowed(state)
       THEN stops' = Append(stops, AcceptedStop("caller"))
       ELSE stops' = Append(stops, [NoStop EXCEPT
                !.status = "rejected", !.err = "ClusterStateError",
                !.at = state, !.launcher_at = launcher,
                !.end = state, !.launcher_end = launcher])
    /\ UNCHANGED <<state, launcher, procs, starts, thread, rit, auto_stop, final,
                   runner>>
    /\ UNCHANGED <<call, remote_refs, furl, files, pending, firstRef, lateConnect,
                   ncalls, find_in, find_out>>
    /\ UNCHANGED <<handles, setup>>

\* The ipcluster process of launcher l ends, stopped or by itself.
Exit(l) ==
    /\ procs[l].st \in {"starting", "up"}
    /\ procs' = [procs EXCEPT ![l].st = "exited"]
    /\ UNCHANGED <<state, launcher, starts, stops, thread, rit, auto_stop, final,
                   runner>>
    /\ UNCHANGED <<call, remote_refs, furl, files, pending, firstRef, lateConnect,
                   ncalls, find_in, find_out>>
    /\ UNCHANGED <<handles, setup>>

\* The deferred of launcher.observe_stop() of the call k fires: line 551,
\* _handle_stop; the call ends if its stop command has ended.
StopObserved(k) ==
    /\ stops[k].obs = "pending"
    /\ procs[stops[k].launcher].st \in {"exited", "failed"}
    /\ state' = _handle_stop(state)
    /\ stops' = [stops EXCEPT ![k] = [@ EXCEPT
           !.obs = "fired", !.obs_from = state, !.obs_state = state',
           !.status = IF gatherBoth("fired", stops[k].cmd) THEN "done" ELSE @,
           !.end = state']]
    /\ UNCHANGED <<launcher, procs, starts, thread, rit, auto_stop, final, runner>>
    /\ UNCHANGED <<call, remote_refs, furl, files, pending, firstRef, lateConnect,
                   ncalls, find_in, find_out>>
    /\ UNCHANGED <<handles, setup>>

\* The deferred of launcher.stop() of the call k fires or fails; the call
\* ends if its observation has fired.
StopCmdDone(k, outcome) ==
    /\ stops[k].cmd = "pending"
    /\ stops' = [stops EXCEPT ![k] = [@ EXCEPT
           !.cmd = outcome,
           !.status = IF gatherBoth(stops[k].obs, outcome) THEN "done" ELSE @,
           !.end = state]]
    /\ UNCHANGED <<state, launcher, procs, starts, thread, rit, auto_stop, final,
                   runner>>
    /\ UNCHANGED <<call, remote_refs, furl, files, pending, firstRef, lateConnect,
                   ncalls, find_in, find_out>>
    /\ UNCHANGED <<handles, setup>>

NextCluster ==
    \/ \E n \in EngineCounts : Start(n)
    \/ \E s \in DOMAIN starts : StartReported(s)
    \/ \E s \in DOMAIN starts : StartFailed(s)
    \/ Stop
    \/ \E l \in DOMAIN procs : Exit(l)
    \/ \E k \in DOMAIN stops : StopObserved(k)
    \/ \E k \in DOMAIN stops, outcome \in {"ok", "failed"} : StopCmdDone(k, outcome)

SpecCluster == InitConc /\ [][NextCluster]_vars

\* ------------------------------------------------------------------ finalization

\* Bounds: the start() and stop() calls made before the handle is released.
DelStarts == 1
DelStops == 1

\* Faulty variant of the line 487 test: auto_stop is not looked at.
Always_AutoStops(as, st) == st = "running"

\* line 487: if self.auto_stop and self.state=='running'
AutoStops(as, st) == as /\ st = "running"

\* lines 657-658: cluster.auto_stop = value
SetAutoStop(value) ==
    /\ final = None
    /\ auto_stop # value
    /\ auto_stop' = value
    /\ UNCHANGED <<state, launcher, procs, starts, stops, final, runner>>
    /\ UNCHANGED <<connector, finding, bridge, handles, setup>>

\* lines 486-489: __del__; stop() hands back a deferred nobody waits for.
Finalize ==
    /\ final = None
    /\ stops' = IF AutoStops(auto_stop, state)
                THEN Append(stops, AcceptedStop("del")) ELSE stops
    /\ final' = [kind |-> "final", state_at |-> state, auto_stop_at |-> auto_stop,
                 stopped |-> (stops' # stops),
                 cmds |-> IF stops' # stops THEN stops'[Len(stops')].cmds ELSE << >>,
                 state_end |-> state, raised |-> FALSE]
    /\ UNCHANGED <<state, launcher, procs, starts, auto_stop, runner>>
    /\ UNCHANGED <<connector, finding, bridge, handles, setup>>

\* A cluster handle that is used, then released.
NextDel ==
    \/ \E n \in EngineCounts : final = None /\ Len(starts) < DelStarts /\ Start(n)
    \/ \E s \in DOMAIN starts : StartReported(s)
    \/ \E s \in DOMAIN starts : StartFailed(s)
    \/ final = None /\ Len(stops) < DelStops /\ Stop
    \/ \E l \in DOMAIN procs : Exit(l)
    \/ \E k \in DOMAIN stops : StopObserved(k)
    \/ \E k \in DOMAIN stops, outcome \in {"ok", "failed"} : StopCmdDone(k, outcome)
    \/ \E value \in BOOLEAN : SetAutoStop(value)
    \/ Finalize

SpecDel == InitConc /\ [][NextDel]_vars

\* ------------------------------------------------------------------ connectors of the handles

\* Bound: the get_task_client calls made on the cluster handles.
MaxGets == 3

\* ClientConnector() (lines 344-345) and AsyncClientConnector() (lines 61-64),
\* run by the thread th for the handle: a Tub is made and started there.
NewConnector(handle, th) == [handle |-> handle, thread |-> th]

\* self.cluster_dir_obj.location of the handles.
Location == Str(ClusterDirA)

\* lines 579-582 and 736-739: the call made on the connector conn, with the
\* delay and max_tries the caller gave (asked_delay, asked_max_tries).
ConnectorCall(handle, th, conn, delay, max_tries) ==
    [handle |-> handle, thread |-> th, connector |-> conn,
     cluster_dir |-> Location, delay |-> delay, max_tries |-> max_tries,
     asked_delay |-> delay, asked_max_tries |-> max_tries]

\* The get_task_client calls made or begun.
GetsBegun == Len(gets) + Cardinality({t \in CallerThreads : getter[t].pc # "ready"})

\* lines 571-582: AsyncCluster.get_task_client(delay, max_tries), on the
\* reactor's thread.
AsyncGet(delay, max_tries) ==
    /\ GetsBegun < MaxGets
    /\ IF client_connector.async = 0
       THEN /\ made' = Append(made, NewConnector("async", "reactor"))
            /\ client_connector' = [client_connector EXCEPT !.async = Len(made')]
       ELSE UNCHANGED <<made, client_connector>>
    /\ gets' = Append(gets, ConnectorCall("async", "reactor",
                          client_connector'.async, delay, max_tries))
    /\ UNCHANGED <<getter, connector, finding, bridge, cluster, setup>>

\* line 734 of Cluster.get_task_client(delay, max_tries), in the caller
\* thread t: self.client_connector is read.
ClusterGetCheck(t, delay, max_tries) ==
    /\ getter[t].pc = "ready"
    /\ GetsBegun < MaxGets
    /\ getter' = [getter EXCEPT ![t] = [pc |-> "checked",
           seen |-> client_connector.blocking, delay |-> delay,
           max_tries |-> max_tries]]
    /\ UNCHANGED <<client_connector, made, gets, connector, finding, bridge,
                   cluster, setup>>

\* line 735, in the caller thread t: it had read None, so it makes a
\* ClientConnector and assigns it.
ClusterGetMake(t) ==
    /\ getter[t].pc = "checked"
    /\ getter[t].seen = 0
    /\ made' = Append(made, NewConnector("blocking", t))
    /\ client_connector' = [client_connector EXCEPT !.blocking = Len(made')]
    /\ getter' = [getter EXCEPT ![t].pc = "made"]
    /\ UNCHANGED <<gets, connector, finding, bridge, cluster, setup>>

\* lines 736-739, in the caller thread t: get_task_client of the connector
\* self.client_connector holds now.
ClusterGetCall(t) ==
    /\ \/ getter[t].pc = "made"
       \/ getter[t].pc = "checked" /\ getter[t].seen # 0
    /\ gets' = Append(gets, ConnectorCall("blocking", t,
                          client_connector.blocking, getter[t].delay,
                          getter[t].max_tries))
    /\ getter' = [getter EXCEPT ![t] = NoGetter]
    /\ UNCHANGED <<client_connector, made, connector, finding, bridge, cluster,
                   setup>>

\* get_task_client calls on an AsyncCluster and, from two threads, on a
\* Cluster.
NextHandle ==
    \/ \E d \in DelayVals, m \in {1, MaxTries} : AsyncGet(d, m)
    \/ \E t \in CallerThreads, d \in DelayVals, m \in {1, MaxTries} :
           ClusterGetCheck(t, d, m)
    \/ \E t \in CallerThreads : ClusterGetMake(t)
    \/ \E t \in CallerThreads : ClusterGetCall(t)

SpecHandle == InitConc /\ [][NextHandle]_vars

\* ------------------------------------------------------------------ properties

\* A call that got past resolution: _try_to_connect was entered.
Entered(c) == call[c].furl_file # None

\* The last connection attempt of the call failed / succeeded.
AttemptFailedNow(c) == call[c].last.outcome \in {"FURLError", "refused"}
AttemptOkNow(c) == call[c].last.outcome \in {"cached", "connected"}

\* C1: one get_client call makes at most max_tries connection attempts; the
\* attempt indices are 0, 1, ..., max_tries-1 and no index is tried twice.
C1_AttemptsWithinBudget ==
    \A c \in Calls :
        LET t == call[c].tried
        IN  /\ Len(t) <= IF call[c].max_tries > 0 THEN call[c].max_tries ELSE 0
            /\ \A i \in 1..Len(t) : t[i] \in 0..(call[c].max_tries - 1)
            /\ \A i, j \in 1..Len(t) : i # j => t[i] # t[j]

\* A call used its whole budget of at least three attempts.
C1_Witness ==
    \E c \in Calls :
        /\ call[c].pc = "done" /\ call[c].max_tries >= 3
        /\ Len(call[c].tried) = call[c].max_tries

\* C2: the delay waited after the k-th failed attempt (k = 0, 1, ... earlier
\* failures) of a call with initial delay d0 is d0 * 1.5^k, in every call.
C2_DelaySequence ==
    \A c \in Calls :
        \A i \in 1..Len(call[c].waits) :
            LET w == call[c].waits[i]
            IN  /\ w[2] > 0
                /\ w[1] * 2^(i - 1) = call[c].d0 * 3^(i - 1) * w[2]

\* A second or later call, with the other initial delay, waited three times.
C2_Witness ==
    \E c \in Calls :
        /\ ncalls >= 2 /\ call[c].d0 = 2
        /\ Len(call[c].waits) >= 3
        /\ call[c].waits[3] = <<18, 4>>

\* C3: when the j-th attempt is the first to succeed, the loop returns that
\* attempt's reference at once: j attempts and j-1 delays have happened, and
\* nothing of the loop follows (the call is in the adapter or done).
C3_SuccessReturnsAtOnce ==
    \A c \in Calls :
        AttemptOkNow(c) =>
            /\ call[c].pc \in {"wrap", "done"}
            /\ call[c].loopres.kind = "ok"
            /\ call[c].loopres.rr.furl = call[c].last.furl
            /\ Len(call[c].tried) = call[c].attempt + 1
            /\ Len(call[c].waits) = call[c].attempt
            /\ call[c].attempt + 1 <= call[c].max_tries

\* The FURL file was empty at the first two attempts and held a FURL at the
\* third, with attempts to spare: success after the delays d0 and 1.5*d0.
C3_Witness ==
    \E c \in Calls :
        /\ call[c].furl_file = FileTc /\ call[c].max_tries = 5
        /\ call[c].furlErrs = 2 /\ call[c].attempt = 2
        /\ call[c].last.outcome = "connected"
        /\ call[c].loopres.kind = "ok"
        /\ call[c].waits = <<<<call[c].d0, 1>>, <<3 * call[c].d0, 2>>>>

\* C4 as stated: when every attempt fails and max_tries = 3, get_client makes
\* 3 attempts and fails with a ClientConnectorError that names the descriptor
\* source and the attempt count 3.
C4_ErrorNamesPathAndCount ==
    \A c \in Calls :
        (/\ call[c].pc = "done" /\ call[c].max_tries = 3
         /\ Entered(c) /\ AttemptFailedNow(c))
        => /\ Len(call[c].tried) = 3
           /\ call[c].result.kind = "failure"
           /\ call[c].result.exc = "ClientConnectorError"
           /\ "furl_file" \in DOMAIN call[c].result
           /\ call[c].result.furl_file = call[c].furl_file
           /\ "max_tries" \in DOMAIN call[c].result
           /\ call[c].result.max_tries = 3

\* C5: when the attempt with index max_tries-1 fails, no delay is waited, no
\* attempt follows, and the loop fails with the failure that attempt raised.
C5_LastFailurePropagates ==
    \A c \in Calls :
        (AttemptFailedNow(c) /\ call[c].attempt = call[c].max_tries - 1)
        => /\ call[c].pc = "done"
           /\ call[c].loopres = call[c].last.failure
           /\ call[c].loopres.exc \in {"FURLError", "ConnectError"}
           /\ call[c].loopres.attempt = call[c].max_tries - 1
           /\ Len(call[c].tried) = call[c].max_tries
           /\ Len(call[c].waits) = call[c].max_tries - 1

\* Two attempts failed for different reasons; the loop failed with the second.
C5_Witness ==
    \E c \in Calls :
        /\ call[c].pc = "done" /\ call[c].max_tries = 2
        /\ call[c].furlErrs = 1
        /\ call[c].loopres = Failure("ConnectError", c, 1)

\* C6: with max_tries <= 0 the loop fails with its budget error before any
\* attempt: no FURL is read, no reference is asked for, no delay is waited.
C6_NoBudgetNoAttempt ==
    \A c \in Calls :
        (Entered(c) /\ call[c].max_tries <= 0)
        => /\ call[c].pc = "done"
           /\ call[c].loopres = BudgetError(call[c].max_tries)
           /\ call[c].result.kind = "failure"
           /\ call[c].tried = << >>
           /\ call[c].waits = << >>
           /\ call[c].last = NoAttempt

C6_Witness ==
    \E c \in Calls :
        /\ call[c].furl_file = FileTc /\ call[c].max_tries < 0
        /\ call[c].pc = "done" /\ furl = None /\ files[FileTc] = FurlX

\* C7: with a FURL file as descriptor, every attempt connects with what the
\* file holds at that attempt; an attempt that finds the file empty fails and
\* is retried after the delay (or ends the loop when it was the last), and
\* the call is never a resolution failure.
C7_FileReadEveryAttempt ==
    \A c \in Calls :
        (IsPathStr(call[c].furl_file) /\ call[c].last.outcome # "none")
        => /\ is_valid_furl(call[c].last.content)
                => /\ call[c].last.furl = call[c].last.content
                   /\ call[c].last.outcome \in
                          {"pending", "cached", "connected", "refused"}
           /\ call[c].last.content = EmptyStr
                => /\ call[c].last.outcome = "FURLError"
                   /\ call[c].last.furl = None
                   /\ \/ call[c].pc = "sleeping"
                      \/ /\ call[c].pc = "done"
                         /\ call[c].attempt = call[c].max_tries - 1
                         /\ call[c].result.exc = "ClientConnectorError"

\* The file was empty at one attempt, held FURL X at the next (which failed
\* to connect) and FURL Y at the third.
C7_Witness ==
    \E c \in Calls :
        /\ call[c].furl_file = FileTc /\ call[c].furlErrs = 1
        /\ call[c].attempt = 2 /\ call[c].last.furl = FurlY
        /\ InCache(remote_refs, FurlY) /\ ~InCache(remote_refs, FurlX)
        /\ call[c].last.outcome = "connected"

\* The entries of the cache for FURL f.
Entries(f) == {e \in remote_refs : e[1] = f}

\* C8 as stated: once a get_reference(X) has succeeded, every get_reference(X)
\* made later returns the same object as that one did, and tub.getReference
\* is not called for X again.
C8_LaterCallsGetFirstReference ==
    /\ \A f \in Furls : ~lateConnect[f]
    /\ \A c \in Calls :
           (call[c].last.late /\ AttemptOkNow(c))
           => call[c].loopres.rr = firstRef[call[c].last.furl]

C10_ExplicitWins ==
    (/\ find_out # None
     /\ find_in.furl_or_file # None
     /\ is_valid_furl_or_file(find_in.furl_or_file))
    => /\ find_out.kind = "ok"
       /\ find_out.value = find_in.furl_or_file
       /\ ~find_out.registry

\* An explicit FURL file is found although the cluster directory is unknown
\* and there is no file name.
C10_Witness ==
    /\ find_out # None /\ find_out.kind = "ok" /\ find_out.value = FileTc
    /\ find_in.cluster_dir = Str("nosuchdir")
    /\ find_in.furl_file_name = None
    /\ find_in.profile = None

\* The place of a strategy in the order of _find_furl.
Rank(step) == IF step = "explicit" THEN 1 ELSE IF step = "cluster_dir" THEN 2 ELSE 3

\* The strategy that produced the outcome out of _find_furl: the last one
\* entered, unless _find_furl raised by itself (lines 92 and 113).
Decider(out) ==
    IF out.kind = "ok" \/ out.registry THEN out.steps[Len(out.steps)] ELSE "none"

\* The strategies are entered in the order explicit, directory, profile, none
\* of them twice, and the profile is not tried when a directory is given.
InOrderNoFallback ==
    /\ \A i, j \in 1..Len(find_out.steps) :
           i < j => Rank(find_out.steps[i]) < Rank(find_out.steps[j])
    /\ find_in.cluster_dir # None =>
           \A i \in 1..Len(find_out.steps) : find_out.steps[i] # "profile"
    /\ (/\ find_in.cluster_dir # None /\ find_in.furl_file_name # None
        /\ ~(find_in.furl_or_file # None /\ is_valid_furl_or_file(find_in.furl_or_file)))
       => /\ Decider(find_out) = "cluster_dir"
          /\ LET d == find_cluster_dir(find_in.cluster_dir)
             IN  (d.kind = "ok" /\ ~is_valid_furl_or_file(
                      PathJoin(d.security_dir, find_in.furl_file_name)))
                 => (find_out.kind = "raise" /\ find_out.exc = "FURLError")

\* C11 as stated: for all inputs exactly one strategy runs to completion, in
\* the order explicit, directory, profile, and a directory that is given is
\* never followed by the profile.
C11_ExactlyOneStrategy ==
    find_out # None => (Decider(find_out) # "none" /\ InOrderNoFallback)

\* C11, amended: at most one strategy runs to completion: exactly one when a
\* descriptor is returned, and none exactly when _find_furl fails by itself
\* (no valid explicit descriptor, and furl_file_name absent or neither
\* cluster_dir nor profile given); the order and the absence of a fallback
\* from the directory to the profile are as stated.
C11_AtMostOneStrategy ==
    find_out # None =>
        /\ InOrderNoFallback
        /\ find_out.kind = "ok" => Decider(find_out) # "none"
        /\ Decider(find_out) = "none" <=>
               /\ ~(find_in.furl_or_file # None
                    /\ is_valid_furl_or_file(find_in.furl_or_file))
               /\ \/ find_in.furl_file_name = None
                  \/ find_in.cluster_dir = None /\ find_in.profile = None

\* The directory given has no valid FURL file; the default profile, which
\* has one, is not tried and the resolution fails.
C11_Witness ==
    /\ find_out # None
    /\ find_in.cluster_dir = Str(ClusterDirB) /\ find_in.profile = Str("default")
    /\ find_in.ipython_dir = None /\ find_in.furl_file_name = TcName
    /\ find_in.furl_or_file = Junk
    /\ find_out.kind = "raise" /\ find_out.steps = <<"explicit", "cluster_dir">>

\* C12 as stated: when no strategy yields a valid result, get_client fails
\* with FURLError, as a failed deferred, without any connection attempt or
\* delay, and the failure is not turned into a ClientConnectorError.
C12_ResolutionFailsWithFURLError ==
    \A c \in Calls :
        (call[c].pc = "done" /\ ~Entered(c))
        => /\ call[c].result.kind = "failure"
           /\ call[c].result.exc = "FURLError"
           /\ ~call[c].result.raised
           /\ call[c].tried = << >>
           /\ call[c].waits = << >>
           /\ call[c].last = NoAttempt

\* C13: a client is made from the reference the loop returned, after one
\* remote call, get_client_name, on it, as an instance of the type that name
\* resolves to, and every client's tub is the connector's one Tub.
C13_AdapterSharesTub ==
    \A c \in Calls :
        call[c].result.kind = "client"
        => /\ call[c].remote = <<"get_client_name">>
           /\ call[c].wrap = "ok"
           /\ Importable(call[c].result.interface)
           /\ call[c].loopres.kind = "ok"
           /\ call[c].result.rr = call[c].loopres.rr
           /\ call[c].result.tub = TheTub
           /\ \A c2 \in Calls : call[c2].result.kind = "client"
                  => call[c2].result.tub = call[c].result.tub

\* Two clients of one connector, for two controllers.
C13_Witness ==
    /\ call[1].result.kind = "client" /\ call[2].result.kind = "client"
    /\ call[1].result.rr.furl = FurlX /\ call[2].result.rr.furl = FurlY

\* C14 as stated: a name that resolves to no type fails get_client with an
\* error of the adapter, which is not a ClientConnectorError.
C14_UnresolvedNameIsNotConnectorError ==
    \A c \in Calls :
        call[c].wrap = "unresolved"
        => /\ call[c].pc = "done"
           /\ call[c].result.kind = "failure"
           /\ call[c].result.exc # "ClientConnectorError"

\* C15: a failure of the adapter step ends the call: the attempts and the
\* delays are those the loop had made when it returned the reference.
C15_AdapterFailureNotRetried ==
    \A c \in Calls :
        call[c].wrap \in {"unresolved", "remote_failed"}
        => /\ call[c].pc = "done"
           /\ call[c].result.kind = "failure"
           /\ call[c].loopres.kind = "ok"
           /\ call[c].remote = <<"get_client_name">>
           /\ Len(call[c].tried) = call[c].attempt + 1
           /\ Len(call[c].waits) = call[c].attempt

\* The adapter failed after the first attempt of a call that could make more.
C15_Witness ==
    \E c \in Calls :
        /\ call[c].wrap \in {"unresolved", "remote_failed"}
        /\ call[c].pc = "done"
        /\ call[c].attempt = 0
        /\ call[c].max_tries > 1

\* C16: a blocking call does not return before the operation on the reactor
\* has completed; it returns the operation's result, or raises the very
\* failure the operation ended with, in the calling thread.
C16_BlockingCallWaits ==
    \A t \in Calls :
        /\ call[t].pc # "done" => thread[t].pc \in {"ready", "blocked"}
        /\ thread[t].pc \in {"returned", "raised"}
           => /\ thread[t].out = call[t].result
              /\ thread[t].pc = "raised" <=> call[t].result.kind = "failure"
              /\ thread[t].pc = "returned" <=> call[t].result.kind = "client"

\* One thread got the ClientConnectorError of a retry that used up its
\* attempts, another one a client.
C16_Witness ==
    \E t, u \in Calls :
        /\ thread[t].pc = "raised"
        /\ thread[t].out.exc = "ClientConnectorError"
        /\ call[t].loopres.kind = "failure"
        /\ Len(call[t].tried) = 2 /\ thread[t].max_tries = 2
        /\ thread[u].pc = "returned"
        /\ thread[u].out.kind = "client"

\* C17: start() while running and stop() while not running fail with
\* ClusterStateError, leave the state and the launcher as they are and give
\* the launcher no command; no other call is rejected.
C17_IllegalCallsRejected ==
    /\ \A s \in DOMAIN starts :
           /\ starts[s].at = "running" <=> starts[s].status = "rejected"
           /\ starts[s].status = "rejected"
              => /\ starts[s].err = "ClusterStateError"
                 /\ starts[s].end = starts[s].at
                 /\ starts[s].launcher_end = starts[s].launcher_at
                 /\ starts[s].cmds = << >>
    /\ \A k \in DOMAIN stops :
           /\ stops[k].at \in {"before", "after"} <=> stops[k].status = "rejected"
           /\ stops[k].status = "rejected"
              => /\ stops[k].err = "ClusterStateError"
                 /\ stops[k].end = stops[k].at
                 /\ stops[k].launcher_end = stops[k].launcher_at
                 /\ stops[k].cmds = << >>

\* A start() was rejected while running, and a stop() after the cluster
\* had stopped.
C17_Witness ==
    /\ \E s \in DOMAIN starts :
           starts[s].status = "rejected" /\ starts[s].at = "running"
    /\ \E k \in DOMAIN stops :
           stops[k].status = "rejected" /\ stops[k].at = "after"

\* C18 as stated: between a start() call and the started report of its
\* launcher the state is not running, the report moves it to running, and a
\* failed start leaves the state what it was at the call.
C18_NotRunningBeforeReport ==
    \A s \in DOMAIN starts :
        /\ starts[s].status = "pending" => state # "running"
        /\ starts[s].status = "done"
           => (starts[s].from = starts[s].at /\ starts[s].end = "running")
        /\ starts[s].status = "failed"
           => (starts[s].end = starts[s].at /\ starts[s].err = "LaunchError")

C20_LifecycleOrder ==
    /\ (\E s \in DOMAIN starts : starts[s].status = "done") => state # "before"
    /\ (\E k \in DOMAIN stops : stops[k].obs = "fired") => state # "before"
    /\ \A k \in DOMAIN stops :
           stops[k].obs = "fired" => stops[k].obs_from \in {"running", "after"}
    /\ \A s \in DOMAIN starts :
           (starts[s].status = "done" /\ starts[s].from = "after")
           => starts[s].at = "after"

\* The connectors made for the handle h.
MadeFor(h) == {i \in DOMAIN made : made[i].handle = h}

\* C21 as stated: a handle has no connector before its first get_task_client
\* call and makes one connector in all, which every call uses, with the
\* cluster's directory and the caller's delay and max_tries.
C21_OneConnectorPerHandle ==
    /\ \A h \in {"async", "blocking"} :
           /\ Cardinality(MadeFor(h)) <= 1
           /\ MadeFor(h) # {}
              => \/ \E i \in DOMAIN gets : gets[i].handle = h
                 \/ h = "blocking" /\ \E t \in CallerThreads : getter[t].pc = "made"
    /\ \A i \in DOMAIN gets :
           /\ gets[i].connector \in MadeFor(gets[i].handle)
           /\ gets[i].cluster_dir = Location
           /\ gets[i].delay = gets[i].asked_delay
           /\ gets[i].max_tries = gets[i].asked_max_tries
           /\ \A j \in DOMAIN gets :
                  gets[j].handle = gets[i].handle
                  => gets[j].connector = gets[i].connector

\* C23 as stated: every connector, with its Tub, is made on the reactor's
\* thread.
C23_LoopStateOnLoopThread ==
    \A i \in DOMAIN made : made[i].thread = "reactor"

\* C22: __del__ calls stop() exactly when the state is running and auto_stop
\* is set; otherwise it gives the launcher no command and leaves the state;
\* nothing is raised out of it.
C22_FinalizerStopsIffRunning ==
    final # None =>
        /\ final.stopped <=> (final.state_at = "running" /\ final.auto_stop_at)
        /\ final.stopped
           => /\ final.cmds = <<"observe_stop", "stop">>
              /\ \E k \in DOMAIN stops :
                     stops[k].by = "del" /\ stops[k].status # "rejected"
        /\ ~final.stopped
           => /\ final.cmds = << >>
              /\ \A k \in DOMAIN stops : stops[k].by # "del"
        /\ final.state_end = final.state_at
        /\ ~final.raised

\* The handle was released while the cluster ran with auto_stop set, and
\* the stop command of the finalizer's stop() failed.
C22_Witness ==
    /\ final # None /\ final.stopped
    /\ \E k \in DOMAIN stops : stops[k].by = "del" /\ stops[k].cmd = "failed"

\* C26 as stated: a start() called while an earlier start() waits for its
\* report makes no second launcher, and stop() acts on the launcher whose
\* report made the state running.
C26_OneLauncherPerRun ==
    /\ \A s \in DOMAIN starts : starts[s].overlap => starts[s].launcher = 0
    /\ \A k \in DOMAIN stops :
           stops[k].status # "rejected" => stops[k].launcher = stops[k].runner

\* C25: every cache entry maps a FURL to a reference that a successful
\* tub.getReference for that FURL returned; the cache changes only in the
\* step in which such a connect succeeds, and a failed attempt leaves it as
\* it is, also when calls for different FURLs interleave.
C25_CacheHoldsConnected ==
    /\ [](\A e \in remote_refs : e[2].kind = "ref" /\ e[2].furl = e[1])
    /\ [][/\ remote_refs' # remote_refs
             => \E c \in Calls :
                    /\ call[c].pc = "connecting"
                    /\ call'[c].last.outcome = "connected"
                    /\ call'[c].loopres.rr.furl = call[c].last.furl
                    /\ remote_refs' = {e \in remote_refs : e[1] # call[c].last.furl}
                           \cup {<<call[c].last.furl, call'[c].loopres.rr>>}
          /\ \A c \in Calls :
                 (call'[c] # call[c]
                  /\ call'[c].last.outcome \in {"refused", "FURLError"})
                 => remote_refs' = remote_refs]_vars

\* Calls for FURL X and FURL Y overlapped, one of them connected at its
\* second attempt after a refused first one, and both FURLs are cached.
C25_Witness ==
    /\ InCache(remote_refs, FurlX) /\ InCache(remote_refs, FurlY)
    /\ Lookup(remote_refs, FurlX).furl = FurlX
    /\ \E c \in Calls :
           /\ call[c].attempt = 1 /\ call[c].last.outcome = "connected"
           /\ call[c].last.furl = FurlY

\* C24 as stated: the get_client that the blocking get_client makes the
\* reactor run gets the caller's ipython_dir, and its retry loop starts with
\* the caller's delay and has the caller's max_tries as its budget.
C24_BlockingGetClientForwards ==
    \A t \in Calls :
        (thread[t].via = "get_client" /\ thread[t].got # None)
        => /\ thread[t].got.ipython_dir = thread[t].args.ipython_dir
           /\ thread[t].got.furl_file_name = thread[t].args.furl_file_name
           /\ call[t].d0 = thread[t].delay
           /\ call[t].max_tries = thread[t].max_tries

\* The directory that the lookups of a construction find: by profile if
\* that lookup finds one, else by cluster_dir; None if neither does.
FoundDir(a) ==
    LET ipd == IF a.ipython_dir = None THEN get_ipython_dir ELSE a.ipython_dir
        byDir == IF a.cluster_dir # None THEN find_cluster_dir(a.cluster_dir)
                 ELSE [kind |-> "raise"]
        byProfile == IF a.profile # None
                     THEN find_cluster_dir_by_profile(ipd, a.profile)
                     ELSE [kind |-> "raise"]
    IN  IF byProfile.kind = "ok" THEN Str(byProfile.security_dir)
        ELSE IF byDir.kind = "ok" THEN Str(byDir.security_dir)
        ELSE None

\* C27 as stated: construction raises ClusterDirError only when no directory
\* is found and auto-creation does not apply; with auto_create=False and a
\* directory found by cluster_dir or by a non-default profile, the handle
\* is made in state before, refers to that directory and nothing is created.
C27_FoundDirectoryIsUsed ==
    setup_out # None =>
        /\ (setup_out.kind = "raise" /\ setup_out.exc = "ClusterDirError")
           => /\ FoundDir(setup_in) = None
              /\ ~(setup_in.auto_create \/ setup_in.profile = Str("default"))
        /\ (/\ FoundDir(setup_in) # None
            /\ ~setup_in.auto_create
            /\ setup_in.profile # Str("default"))
           => /\ setup_out.kind = "ok"
              /\ state = "before"
              /\ Str(setup_out.security_dir) = FoundDir(setup_in)
              /\ ~setup_out.created

\* C28: a get_client call that has begun ends, with a client or with a
\* failure, whatever max_tries is and however its attempts turn out.
C28_GetClientCompletes ==
    (call[1].pc \notin {"idle", "done"}) ~> (call[1].pc = "done")

\* The call ended with a failure after all its MaxTries attempts, of which
\* some found no FURL and some were refused.
C28_Witness ==
    /\ call[1].pc = "done" /\ call[1].result.kind = "failure"
    /\ call[1].max_tries = MaxTries /\ Len(call[1].tried) = MaxTries
    /\ call[1].furlErrs > 0 /\ call[1].furlErrs < MaxTries

====
